---- MODULE Spec2Model ----
(***************************************************************************)
(* PyMPlayer (mplayer/core.py): the Player facade, its child process, the  *)
(* synchronous getter exchange of Player._command and the two              *)
(* _FileWrapper broadcasters (stdout, stderr).                             *)
(*                                                                         *)
(* Threads: "main" drives the lifecycle (spawn, quit, __del__); the        *)
(* callers issue commands through Player._command; one event-loop thread   *)
(* runs _FileWrapper.publish, one call at a time, for either broadcaster;  *)
(* the child process is the environment.  Every statement of the code that *)
(* reads or writes shared state is one step of its thread.                 *)
(***************************************************************************)
EXTENDS Integers, Sequences, FiniteSets, TLC

\* ---- bounds of the model ------------------------------------------------
NumCallers == 2        \* threads that call Player._command concurrently
MaxSpawns == 2         \* Popen objects created over one behaviour
MaxUnsolicited == 1    \* unsolicited lines one child prints
MaxPipe == 1           \* command lines the stdin pipe holds unread

Callers == 1..NumCallers
Gens == 1..MaxSpawns
Streams == {"stdout", "stderr"}
Subs == {"cb1"}
FanoutSubs == {"cb1", "cb2", "cb3"}
Props == {"volume"}
Names == {"get_property", "set_property", ""}
Texts == {<<"EOF code">>, <<>>}
Payloads == {<<"=", "50">>}
ErrPayloads == {<<"=", "PROPERTY_UNKNOWN">>}
None == "None"

VARIABLES
    proc,         \* Player._proc: 0 is None, g > 0 the g-th Popen object
    running,      \* the child of self._proc has not exited (poll() is None)
    reacts,       \* the child of self._proc serves its stdin
    stdin,        \* lines written to the child's stdin, not yet consumed
    printed,      \* unsolicited lines the child of self._proc printed so far
    pipe,         \* per Popen object and stream: lines printed, not yet read
    file,         \* _FileWrapper._file of each broadcaster: 0 is None
    lock,         \* _FileWrapper._lock of each broadcaster: 0 free, else holder
    subscribers,  \* _FileWrapper._subscribers of each broadcaster
    mpc,          \* position of the main thread
    mop,          \* operation the main thread is in: "", "spawn", "quit", "del",
                  \* "hook", "unhook"
    mres,         \* what the main thread's operation ends with
    cpc,          \* position of each caller inside Player._command
    cname,        \* name argument of each caller's current _command call
    carg,         \* first positional argument of that call (None: no argument)
    ccall,        \* the call each caller makes: the function and its arguments
    cmsg,         \* what the message of the exception of that call names
    cres,         \* what the call ends with: the line read, or an Outcome
    ppc,          \* position of the event loop inside _FileWrapper.publish
    pw,           \* the broadcaster whose publish the event loop runs
    pfile,        \* the file object publish took from self._file (0: none)
    pdata,        \* the line publish read
    pres,         \* what publish ends with: "True" or "AttributeError"
    pidx,         \* index of the list iterator of publish's for loop
    marg,         \* arguments of a hook or unhook call of the main thread
    \* history variables (observations, not program state)
    lastEvent,    \* last lifecycle event: "init", "spawn" (Popen), "exit" (the
                  \* child ended), "quit" (quit() of a live process returned)
    enteredDead,  \* per caller: the current call began with no live process
    ansReads,     \* per caller: own answer lines read by the current call
    sent,         \* per caller: the lines the current call wrote to stdin
    pread,        \* the read of the current publish call: whether it took a
                  \* line, with the lock held, from a detached broadcaster
    delivered,    \* the calls subscriber(data) of the current publish call, in
                  \* order, as <<subscriber, line>>
    psubs,        \* the subscriber list when the for loop of the current
                  \* publish call began
    children,     \* the child processes launched that have not exited
    enteredAlive  \* the current spawn() call began with a live process

progVars == <<proc, running, reacts, stdin, printed, pipe, file, lock, subscribers>>
threadVars == <<mpc, mop, mres, cpc, cname, carg, ccall, cmsg, cres, ppc, pw, pfile, pdata, pres, pidx, marg>>
histVars == <<lastEvent, enteredDead, ansReads, sent, pread, delivered, psubs, children, enteredAlive>>
vars == <<progVars, threadVars, histVars>>

\* ---- text ----------------------------------------------------------------
\* Text is a sequence of tokens: a token stands for a run of characters that
\* the code never splits ("ANS_volume", "50", "(null)"), and each character
\* the code looks for ("=", "'", the double quote) is a token of its own.
EQ == "="
SQ == "'"
DQ == "dq"

\* ---- lines ---------------------------------------------------------------
\* A line on a pipe.  tag "ANS": ANS_<prop> followed by payload; "ERR":
\* ANS_ERROR followed by payload; "TXT": any other text, payload.  for is the
\* caller whose command it answers (0 for text), kept for the properties only.
AnsLine(p, v, t) == [tag |-> "ANS", prop |-> p, payload |-> v, for |-> t]
ErrLine(v, t) == [tag |-> "ERR", prop |-> "ERROR", payload |-> v, for |-> t]
TxtLine(s) == [tag |-> "TXT", prop |-> "", payload |-> s, for |-> 0]
EofLine == TxtLine(<<>>)
\* What a call ends with when it is not a line: the value None, or an
\* exception.
Outcome(k) == [tag |-> k, prop |-> "", payload |-> <<>>, for |-> 0]

\* The text of a line after decode().rstrip(); only unsolicited text can be
\* empty.
Text(l) == IF l.tag = "TXT" THEN l.payload ELSE <<"ANS_" \o l.prop>> \o l.payload

\* What the message of an exception names: the expected type and the
\* position of the argument.
Msg(ty, i) == [expected |-> ty, position |-> i]
NoMsg == Msg("", 0)

\* ---- values and calls -----------------------------------------------------
\* A Python value: its type, its number (0 if it has none), str() of it, and
\* for a Step its direction.  Step(m, d) has _val = m and _dir = d.
Value(ty, n, s, d) == [type |-> ty, num |-> n, text |-> s, dir |-> d]
IntV(n) == Value("int", n, ToString(n), 0)
FloatV(n) == Value("float", n, ToString(n) \o ".0", 0)
StrV(s) == Value("str", 0, s, 0)
BoolV(b) == Value("bool", IF b THEN 1 ELSE 0, IF b THEN "True" ELSE "False", 0)
NoneV == Value("NoneType", 0, "None", 0)
StepV(m, d) == Value("Step", m, ToString(m), d)

\* isinstance(v, ty): bool is a subclass of int.
IsInstance(v, ty) == v.type = ty \/ (ty = "int" /\ v.type = "bool")

\* A bound of a property: pmin or pmax, None if the property has none.
Bound(n) == [set |-> TRUE, at |-> n]
NoBound == [set |-> FALSE, at |-> 0]

\* The types keyword of _command: a tuple of types, or a single type that is
\* not in a tuple.  The default is the empty tuple.
Types(tup, items) == [tuple |-> tup, items |-> items]
NoTypes == Types(TRUE, <<>>)

\* A declared parameter of a command: its type, and whether it is optional.
Param(ty, opt) == [type |-> ty, optional |-> opt]

\* _gen_func_sig: types is '(' + ','.join(names) + ')', which Python reads as
\* a tuple for no name and for two or more, and as the type itself for one.
gen_func_sig(declared) ==
    Types(Len(declared) # 1, [i \in 1..Len(declared) |-> declared[i].type])

\* A call of a caller: the function (api), and its arguments.
CallOf(f, n, a, ty, pre, v, pt, lo, hi) ==
    [api |-> f, name |-> n, args |-> a, types |-> ty, prefix |-> pre,
     value |-> v, ptype |-> pt, pmin |-> lo, pmax |-> hi]
\* p._command(n, *a, types=ty, prefix=pre)
CommandCall(n, a, ty, pre) == CallOf("_command", n, a, ty, pre, NoneV, "", NoBound, NoBound)
\* p.<n>(*a, prefix=pre) of a generated method with the declared parameters:
\* the parameters not supplied are None.
MethodCall(n, declared, a, pre) ==
    CommandCall(n, [i \in 1..Len(declared) |-> IF i <= Len(a) THEN a[i] ELSE NoneV],
                gen_func_sig(declared), pre)
\* p.<n>, a property of type pt (_propget, _propget_bool or _propget_dict)
PropgetCall(n, pt) == CallOf("_propget", n, <<>>, NoTypes, None, NoneV, pt, NoBound, NoBound)
\* p.<n> = v, a property of type pt (_propset, or _propset_bool for bool)
PropsetCall(v, n, pt, lo, hi) == CallOf("_propset", n, <<>>, NoTypes, None, v, pt, lo, hi)
NoCall == CommandCall("", <<>>, NoTypes, None)

\* What a function asks of _command, or the exception it raises before.
Pass(n, a, ty, pre) ==
    [raise |-> "", msg |-> NoMsg, name |-> n, args |-> a, types |-> ty, prefix |-> pre]
Raise(k, m) ==
    [raise |-> k, msg |-> m, name |-> "", args |-> <<>>, types |-> NoTypes, prefix |-> None]

\* Variant of propset: the tests against pmin and pmax are missing.
propset_NoBounds(c) ==
    IF c.value.type # "Step"
    THEN IF ~IsInstance(c.value, c.ptype) THEN Raise("TypeError", Msg(c.ptype, 0))
         ELSE Pass("set_property", <<StrV(c.name), c.value>>, NoTypes, None)
    ELSE Pass("step_property", <<StrV(c.name), IntV(c.value.num), IntV(c.value.dir)>>, NoTypes, None)

\* Player._propset(value, pname, ptype, pmin, pmax)
propset(c) ==
    IF c.value.type # "Step"
    THEN IF ~IsInstance(c.value, c.ptype) THEN Raise("TypeError", Msg(c.ptype, 0))
         ELSE IF c.pmin.set /\ c.value.num < c.pmin.at THEN Raise("ValueError", NoMsg)
         ELSE IF c.pmax.set /\ c.value.num > c.pmax.at THEN Raise("ValueError", NoMsg)
         ELSE Pass("set_property", <<StrV(c.name), c.value>>, NoTypes, None)
    ELSE Pass("step_property", <<StrV(c.name), IntV(c.value.num), IntV(c.value.dir)>>, NoTypes, None)

\* Player._propset_bool(value, pname)
propset_bool(c) ==
    IF c.value.type # "Step"
    THEN IF ~IsInstance(c.value, "bool") THEN Raise("TypeError", Msg("bool", 0))
         ELSE Pass("set_property", <<StrV(c.name), c.value>>, NoTypes, None)
    ELSE Pass("step_property", <<StrV(c.name)>>, NoTypes, None)

\* The _command call a call comes to.  _generate_properties gives a bool
\* property _propset_bool and any other property _propset.
Request(c) ==
    IF c.api = "_propget" THEN Pass("get_property", <<StrV(c.name)>>, NoTypes, None)
    ELSE IF c.api = "_propset" /\ c.ptype = "bool" THEN propset_bool(c)
    ELSE IF c.api = "_propset" THEN propset(c)
    ELSE Pass(c.name, c.args, c.types, c.prefix)

\* ---- the command line of Player._command ---------------------------------
\* Player.command_prefix
command_prefix == "pausing_keep_force"

\* args = tuple((x for x in args if x is not None))
Discard(a) == SelectSeq(a, LAMBDA x : x.type # "NoneType")

\* prefix = kwargs.get('prefix', command_prefix); None gives command_prefix
Prefix(r) == IF r.prefix = None THEN command_prefix ELSE r.prefix

\* str(int(x)) if isinstance(x, bool) else str(x)
Render(v) == IF v.type = "bool" THEN ToString(v.num) ELSE v.text

\* Variant of Line: command.pop(0) is missing.
Line_Prefixed(r) ==
    LET a == Discard(r.args)
    IN <<Prefix(r), r.name>> \o [i \in 1..Len(a) |-> Render(a[i])] \o <<"\n">>

\* command = [prefix, name] + the arguments + ['\n'], without the prefix for
\* quit, pause and stop; ' '.join(command) keeps the elements apart.
Line(r) ==
    LET a == Discard(r.args)
        command == <<Prefix(r), r.name>> \o [i \in 1..Len(a) |-> Render(a[i])] \o <<"\n">>
    IN IF r.name \in {"quit", "pause", "stop"} THEN Tail(command) ELSE command

\* result = map(isinstance, args, types[:len(args)]); result.index(False) + 1,
\* or 0 if all(result).
FirstMismatch(a, items) ==
    LET n == IF Len(a) < Len(items) THEN Len(a) ELSE Len(items)
        bad == {i \in 1..n : ~IsInstance(a[i], items[i])}
    IN IF bad = {} THEN 0 ELSE CHOOSE i \in bad : \A j \in bad : i <= j

\* What is recorded of a read of publish.
NoRead == [line |-> FALSE, locked |-> FALSE, detached |-> FALSE]

\* The arguments of a hook or unhook call: the broadcaster and the subscriber.
Args(w, s) == [on |-> w, sub |-> s]
NoArgs == Args("", "")

\* A command line on stdin: its name, first argument, issuer and text.
CmdLine(n, a, t, x) == [name |-> n, arg |-> a, by |-> t, text |-> x]

\* Player(stdout=PIPE, stderr=PIPE, autospawn=False): _FileWrapper._handle
handle == [w \in Streams |-> "PIPE"]

\* ---- Player.is_alive -----------------------------------------------------
\* Variant of is_alive: the handle is tested, poll() is not.
is_alive_NoPoll == proc # 0

\* self._proc is not None and self._proc.poll() is None
is_alive == proc # 0 /\ running

Init ==
    /\ proc = 0
    /\ running = FALSE
    /\ reacts = TRUE
    /\ stdin = <<>>
    /\ printed = 0
    /\ pipe = [g \in Gens |-> [w \in Streams |-> <<>>]]
    /\ file = [w \in Streams |-> 0]
    /\ lock = [w \in Streams |-> 0]
    /\ subscribers = [w \in Streams |-> <<>>]
    /\ mpc = "idle"
    /\ mop = ""
    /\ mres = None
    /\ cpc = [t \in Callers |-> "idle"]
    /\ cname = [t \in Callers |-> ""]
    /\ carg = [t \in Callers |-> None]
    /\ ccall = [t \in Callers |-> NoCall]
    /\ cmsg = [t \in Callers |-> NoMsg]
    /\ cres = [t \in Callers |-> Outcome(None)]
    /\ ppc = "idle"
    /\ pw = "stdout"
    /\ pfile = 0
    /\ pdata = EofLine
    /\ pres = None
    /\ pidx = 0
    /\ marg = NoArgs
    /\ lastEvent = "init"
    /\ enteredDead = [t \in Callers |-> FALSE]
    /\ ansReads = [t \in Callers |-> 0]
    /\ sent = [t \in Callers |-> <<>>]
    /\ pread = NoRead
    /\ delivered = <<>>
    /\ psubs = <<>>
    /\ children = {}
    /\ enteredAlive = FALSE

\* ---- pipes ---------------------------------------------------------------
\* A pipe end is an object of the program while something refers to it: the
\* Popen object in self._proc, a broadcaster's _file, or the publish call
\* that took it.  Python closes an unreferenced file object, and what was
\* left unread in it is gone.
Referenced(g, w, pr, fl, pf, pwv) ==
    g = pr \/ fl[w] = g \/ (pf = g /\ pwv = w)

Collect(pp, pr, fl, pf, pwv) ==
    [g \in Gens |-> [w \in Streams |->
        IF Referenced(g, w, pr, fl, pf, pwv) THEN pp[g][w] ELSE <<>>]]

\* ---- the child process (environment) ------------------------------------
IsGetter(n) == n \in {"get_property"}

\* The child prints one unsolicited line on a stream that is a pipe.
ProcPrint(w, s) ==
    /\ running
    /\ handle[w] = "PIPE"
    /\ printed < MaxUnsolicited
    /\ pipe' = [pipe EXCEPT ![proc][w] = Append(@, TxtLine(s))]
    /\ printed' = printed + 1
    /\ UNCHANGED <<proc, running, reacts, stdin, file, lock, subscribers>>
    /\ UNCHANGED <<threadVars, histVars>>

\* The child reads the next command line of its stdin: a getter is answered
\* with one line on stdout, ANS_<prop> with a payload of P or ANS_ERROR with
\* a payload of E; quit ends the process; any other command prints nothing.
ProcServeWith(P, E) ==
    /\ running
    /\ reacts
    /\ stdin # <<>>
    /\ LET c == Head(stdin) IN
       IF c.name = "quit"
       THEN /\ running' = FALSE
            /\ stdin' = <<>>
            /\ lastEvent' = "exit"
            /\ children' = children \ {proc}
            /\ pipe' = pipe
       ELSE /\ stdin' = Tail(stdin)
            /\ UNCHANGED <<running, lastEvent, children>>
            /\ IF IsGetter(c.name) /\ handle["stdout"] = "PIPE"
               THEN \E l \in {AnsLine(c.arg, v, c.by) : v \in P} \cup {ErrLine(v, c.by) : v \in E} :
                       pipe' = [pipe EXCEPT ![proc]["stdout"] = Append(@, l)]
               ELSE pipe' = pipe
    /\ UNCHANGED <<proc, reacts, printed, file, lock, subscribers>>
    /\ UNCHANGED <<threadVars, enteredDead, ansReads, sent, pread, delivered, psubs, enteredAlive>>

ProcServe == ProcServeWith(Payloads, ErrPayloads)

\* The child exits on its own.
ProcExit ==
    /\ running
    /\ running' = FALSE
    /\ stdin' = <<>>
    /\ lastEvent' = "exit"
    /\ children' = children \ {proc}
    /\ UNCHANGED <<proc, reacts, printed, pipe, file, lock, subscribers>>
    /\ UNCHANGED <<threadVars, enteredDead, ansReads, sent, pread, delivered, psubs, enteredAlive>>

\* The child that writes to a pipe has exited: end of file once it is empty.
Ended(g) == ~(g = proc /\ running)

\* ---- stdin of the child --------------------------------------------------
\* self._proc.stdin.write(command) raises IOError (EPIPE) once the child is gone.
WriteFails == ~running
\* write() returns once the pipe takes the line.
CanWrite == running /\ Len(stdin) < MaxPipe
Written(c) == Append(stdin, c)

\* ---- main thread: Player.spawn -------------------------------------------
\* Variant of MainSpawn: the aliveness test is missing.
MainSpawn_NoTest(R) ==
    /\ mpc = "idle"
    /\ mop' = "spawn"
    /\ mres' = None
    /\ enteredAlive' = is_alive
    /\ proc + 1 \in Gens
    /\ proc' = proc + 1
    /\ running' = TRUE
    /\ \E r \in R : reacts' = r
    /\ stdin' = <<>>
    /\ printed' = 0
    /\ lastEvent' = "spawn"
    /\ children' = children \cup {proc'}
    /\ mpc' = "sp_out"
    /\ pipe' = Collect(pipe, proc', file, pfile, pw)
    /\ UNCHANGED <<file, lock, subscribers>>
    /\ UNCHANGED <<cpc, cname, carg, ccall, cmsg, cres, ppc, pw, pfile, pdata, pres, pidx, marg>>
    /\ UNCHANGED <<enteredDead, ansReads, sent, pread, delivered, psubs>>

\* spawn(): return if alive, else self._proc = subprocess.Popen(...).
MainSpawn(R) ==
    /\ mpc = "idle"
    /\ mop' = "spawn"
    /\ mres' = None
    /\ enteredAlive' = is_alive
    /\ IF is_alive
       THEN /\ mpc' = "ret"
            /\ UNCHANGED <<proc, running, reacts, stdin, printed, lastEvent, children>>
       ELSE /\ proc + 1 \in Gens
            /\ proc' = proc + 1
            /\ running' = TRUE
            /\ \E r \in R : reacts' = r
            /\ stdin' = <<>>
            /\ printed' = 0
            /\ lastEvent' = "spawn"
            /\ children' = children \cup {proc'}
            /\ mpc' = "sp_out"
    /\ pipe' = Collect(pipe, proc', file, pfile, pw)
    /\ UNCHANGED <<file, lock, subscribers>>
    /\ UNCHANGED <<cpc, cname, carg, ccall, cmsg, cres, ppc, pw, pfile, pdata, pres, pidx, marg>>
    /\ UNCHANGED <<enteredDead, ansReads, sent, pread, delivered, psubs>>

\* The stream Popen gives for a handle: a pipe end, or None.
ProcStream(w) == IF handle[w] = "PIPE" THEN proc ELSE 0

\* Variant of MainSpawnAttachOut: the stdout broadcaster is left as it was.
MainSpawnAttachOut_Skipped ==
    /\ mpc = "sp_out"
    /\ mpc' = "sp_err"
    /\ UNCHANGED progVars
    /\ UNCHANGED <<mop, mres, cpc, cname, carg, ccall, cmsg, cres, ppc, pw, pfile, pdata, pres, pidx, marg>>
    /\ UNCHANGED histVars

\* self._stdout._file = self._proc.stdout
MainSpawnAttachOut ==
    /\ mpc = "sp_out"
    /\ file' = [file EXCEPT !["stdout"] = ProcStream("stdout")]
    /\ mpc' = "sp_err"
    /\ pipe' = Collect(pipe, proc, file', pfile, pw)
    /\ UNCHANGED <<proc, running, reacts, stdin, printed, lock, subscribers>>
    /\ UNCHANGED <<mop, mres, cpc, cname, carg, ccall, cmsg, cres, ppc, pw, pfile, pdata, pres, pidx, marg>>
    /\ UNCHANGED histVars

\* self._stderr._file = self._proc.stderr
MainSpawnAttachErr ==
    /\ mpc = "sp_err"
    /\ file' = [file EXCEPT !["stderr"] = ProcStream("stderr")]
    /\ mpc' = "ret"
    /\ pipe' = Collect(pipe, proc, file', pfile, pw)
    /\ UNCHANGED <<proc, running, reacts, stdin, printed, lock, subscribers>>
    /\ UNCHANGED <<mop, mres, cpc, cname, carg, ccall, cmsg, cres, ppc, pw, pfile, pdata, pres, pidx, marg>>
    /\ UNCHANGED histVars

\* ---- main thread: Player.quit (and __del__, which calls it) --------------
AllIdle == (\A t \in Callers : cpc[t] = "idle") /\ ppc = "idle"

\* quit(): return None if not alive.  __del__ runs when no other thread
\* holds a reference, that is when no method call is in progress.
MainQuit(op) ==
    /\ mpc = "idle"
    /\ op = "del" => AllIdle
    /\ mop' = op
    /\ mres' = None
    /\ IF is_alive
       THEN /\ mpc' = "q_clr_out"
       ELSE /\ mpc' = "ret"
    /\ UNCHANGED progVars
    /\ UNCHANGED <<cpc, cname, carg, ccall, cmsg, cres, ppc, pw, pfile, pdata, pres, pidx, marg>>
    /\ UNCHANGED histVars

\* Variant of MainQuitClearOut: the stdout broadcaster stays attached.
MainQuitClearOut_Kept ==
    /\ mpc = "q_clr_out"
    /\ mpc' = "q_clr_err"
    /\ UNCHANGED progVars
    /\ UNCHANGED <<mop, mres, cpc, cname, carg, ccall, cmsg, cres, ppc, pw, pfile, pdata, pres, pidx, marg>>
    /\ UNCHANGED histVars

\* self._stdout._file = None
MainQuitClearOut ==
    /\ mpc = "q_clr_out"
    /\ file' = [file EXCEPT !["stdout"] = 0]
    /\ mpc' = "q_clr_err"
    /\ pipe' = Collect(pipe, proc, file', pfile, pw)
    /\ UNCHANGED <<proc, running, reacts, stdin, printed, lock, subscribers>>
    /\ UNCHANGED <<mop, mres, cpc, cname, carg, ccall, cmsg, cres, ppc, pw, pfile, pdata, pres, pidx, marg>>
    /\ UNCHANGED histVars

\* self._stderr._file = None
MainQuitClearErr ==
    /\ mpc = "q_clr_err"
    /\ file' = [file EXCEPT !["stderr"] = 0]
    /\ mpc' = "q_cmd"
    /\ pipe' = Collect(pipe, proc, file', pfile, pw)
    /\ UNCHANGED <<proc, running, reacts, stdin, printed, lock, subscribers>>
    /\ UNCHANGED <<mop, mres, cpc, cname, carg, ccall, cmsg, cres, ppc, pw, pfile, pdata, pres, pidx, marg>>
    /\ UNCHANGED histVars

\* self._command('quit', retcode): the aliveness check of _command.
MainQuitCommand ==
    /\ mpc = "q_cmd"
    /\ mpc' = IF is_alive THEN "q_write" ELSE "q_wait"
    /\ UNCHANGED progVars
    /\ UNCHANGED <<mop, mres, cpc, cname, carg, ccall, cmsg, cres, ppc, pw, pfile, pdata, pres, pidx, marg>>
    /\ UNCHANGED histVars

\* self._proc.stdin.write(b'quit 0 \n'): IOError leaves quit() by exception.
MainQuitWrite ==
    /\ mpc = "q_write"
    /\ IF WriteFails
       THEN /\ mres' = "IOError"
            /\ mpc' = "ret"
            /\ stdin' = stdin
       ELSE /\ CanWrite
            /\ stdin' = Written(CmdLine("quit", "0", 0, Line(Pass("quit", <<IntV(0)>>, NoTypes, None))))
            /\ mpc' = "q_flush"
            /\ mres' = mres
    /\ UNCHANGED <<proc, running, reacts, printed, pipe, file, lock, subscribers>>
    /\ UNCHANGED <<mop, cpc, cname, carg, ccall, cmsg, cres, ppc, pw, pfile, pdata, pres, pidx, marg>>
    /\ UNCHANGED histVars

\* self._proc.stdin.flush()
MainQuitFlush ==
    /\ mpc = "q_flush"
    /\ mpc' = "q_wait"
    /\ UNCHANGED progVars
    /\ UNCHANGED <<mop, mres, cpc, cname, carg, ccall, cmsg, cres, ppc, pw, pfile, pdata, pres, pidx, marg>>
    /\ UNCHANGED histVars

\* return self._proc.wait(): blocks until the child has exited.
MainQuitWait ==
    /\ mpc = "q_wait"
    /\ ~running
    /\ mres' = "status"
    /\ mpc' = "ret"
    /\ lastEvent' = "quit"
    /\ UNCHANGED progVars
    /\ UNCHANGED <<mop, cpc, cname, carg, ccall, cmsg, cres, ppc, pw, pfile, pdata, pres, pidx, marg>>
    /\ UNCHANGED <<enteredDead, ansReads, sent, pread, delivered, psubs, children, enteredAlive>>

\* The operation of the main thread is over; after __del__ the object is gone.
MainReturn ==
    /\ mpc = "ret"
    /\ mpc' = IF mop = "del" THEN "finalized" ELSE "idle"
    /\ mop' = ""
    /\ mres' = None
    /\ marg' = NoArgs
    /\ enteredAlive' = FALSE
    /\ UNCHANGED progVars
    /\ UNCHANGED <<cpc, cname, carg, ccall, cmsg, cres, ppc, pw, pfile, pdata, pres, pidx>>
    /\ UNCHANGED <<lastEvent, enteredDead, ansReads, sent, pread, delivered, psubs, children>>

\* ---- callers: Player._command --------------------------------------------
Finalizing == mop = "del" \/ mpc = "finalized"

\* Variant of CommandSkips: the aliveness test is missing.
CommandSkips_NameOnly(n) == n = ""

\* if not self.is_alive() or not name: return
CommandSkips(n) == ~is_alive \/ n = ""

\* key = 'ANS_' + str(args[0]); res.startswith(key) or res.startswith('ANS_ERROR')
Matches(l, a) ==
    \/ l.tag = "ERR"
    \/ l.tag = "ANS" /\ (a = None \/ l.prop = a)

\* The arguments a call of the name takes.
ArgsOf(n) == IF n \in {"get_property", "set_property"} THEN Props ELSE {None}

\* res.partition('=')[2]: what follows the first '=', nothing without one.
RECURSIVE AfterEq(_)
AfterEq(x) ==
    IF x = <<>> THEN <<>> ELSE IF Head(x) = EQ THEN Tail(x) ELSE AfterEq(Tail(x))

\* .strip('\'"'): without the quote characters at both ends.
Quotes == {SQ, DQ}

RECURSIVE LStrip(_)
LStrip(x) == IF x # <<>> /\ Head(x) \in Quotes THEN LStrip(Tail(x)) ELSE x

RECURSIVE RStrip(_)
RStrip(x) ==
    IF x # <<>> /\ x[Len(x)] \in Quotes THEN RStrip(SubSeq(x, 1, Len(x) - 1)) ELSE x

Strip(x) == RStrip(LStrip(x))

\* ['(null)', 'PROPERTY_UNAVAILABLE', 'PROPERTY_UNKNOWN']
Sentinels == {<<"(null)">>, <<"PROPERTY_UNAVAILABLE">>, <<"PROPERTY_UNKNOWN">>}

\* A value a call returns: None, or a text.
Result(x) == [none |-> FALSE, text |-> x]
NoResult == [none |-> TRUE, text |-> <<>>]

\* Variant of Answer: the test against the three sentinels is missing.
Answer_Raw(l) == Result(Strip(AfterEq(Text(l))))

\* ans = res.partition('=')[2].strip('\'"'); the three sentinels become None.
Answer(l) ==
    LET ans == Strip(AfterEq(Text(l)))
    IN IF ans \in Sentinels THEN NoResult ELSE Result(ans)

\* What _command returns to a caller that is at its return: the answer of a
\* getter that read its line, None otherwise.
Returned(t) == IF cres[t].tag \in {"ANS", "ERR"} THEN Answer(cres[t]) ELSE NoResult

\* The texts int() and float() take; they raise ValueError on any other.
NumericTexts == {<<"50">>}

\* What a property read gives for the result res of _command: None if res
\* is None; else ptype(res) in _propget, res == 'yes' in _propget_bool, and
\* dict(zip(...)) of res.split(',') in _propget_dict.
propget(c, res) ==
    IF res.none THEN "None"
    ELSE IF c.ptype \in {"int", "float"} /\ res.text \notin NumericTexts THEN "ValueError"
    ELSE c.ptype

\* if types: ... types[:len(args)] ... raise TypeError(...).  A types that is
\* a type and not a tuple cannot be sliced: TypeError, whatever the
\* arguments.  On a mismatch, result.index(False) is the index under
\* Python 2, where map gives a list, and an AttributeError under Python 3,
\* where it gives an iterator.  "" if the arguments pass.
TypeCheck(r) ==
    LET a == Discard(r.args)
        i == FirstMismatch(a, r.types.items)
    IN IF ~r.types.tuple THEN {[raise |-> "TypeError", msg |-> NoMsg]}
       ELSE IF i # 0 THEN {[raise |-> "TypeError", msg |-> Msg(r.types.items[i], i)],
                           [raise |-> "AttributeError", msg |-> NoMsg]}
       ELSE {[raise |-> "", msg |-> NoMsg]}

\* key = 'ANS_' + str(args[0]) if args: the first argument, None without one.
KeyArg(r) == IF Discard(r.args) = <<>> THEN None ELSE Discard(r.args)[1].text

\* A call and everything up to its first access to the child's streams: the
\* validation of the property setters, then in _command the early return,
\* the check of the arguments against types, and the branch on
\* name.startswith('get_') and on self._proc.stdout is not None.
Call(t, c) ==
    /\ cpc[t] = "idle"
    /\ ~Finalizing
    /\ ccall' = [ccall EXCEPT ![t] = c]
    /\ enteredDead' = [enteredDead EXCEPT ![t] = ~running]
    /\ ansReads' = [ansReads EXCEPT ![t] = 0]
    /\ sent' = [sent EXCEPT ![t] = <<>>]
    /\ LET r == Request(c) IN
       IF r.raise # ""
       THEN /\ cres' = [cres EXCEPT ![t] = Outcome(r.raise)]
            /\ cmsg' = [cmsg EXCEPT ![t] = r.msg]
            /\ cpc' = [cpc EXCEPT ![t] = "ret"]
            /\ UNCHANGED <<cname, carg>>
       ELSE IF CommandSkips(r.name)
       THEN /\ cres' = [cres EXCEPT ![t] = Outcome(None)]
            /\ cmsg' = [cmsg EXCEPT ![t] = NoMsg]
            /\ cpc' = [cpc EXCEPT ![t] = "ret"]
            /\ cname' = [cname EXCEPT ![t] = r.name]
            /\ carg' = [carg EXCEPT ![t] = KeyArg(r)]
       ELSE \E e \in TypeCheck(r) :
            /\ cname' = [cname EXCEPT ![t] = r.name]
            /\ carg' = [carg EXCEPT ![t] = KeyArg(r)]
            /\ cmsg' = [cmsg EXCEPT ![t] = e.msg]
            /\ cres' = [cres EXCEPT ![t] = Outcome(IF e.raise # "" THEN e.raise ELSE None)]
            /\ cpc' = [cpc EXCEPT ![t] =
                         IF e.raise # "" THEN "ret"
                         ELSE IF ~IsGetter(r.name) THEN "write"
                         ELSE IF ProcStream("stdout") # 0 THEN "acquire"
                         ELSE "ret"]
    /\ UNCHANGED progVars
    /\ UNCHANGED <<mpc, mop, mres, ppc, pw, pfile, pdata, pres, pidx, marg>>
    /\ UNCHANGED <<lastEvent, pread, delivered, psubs, children, enteredAlive>>

\* p._command(n, a), or p._command(n) if a is None.
Command(t, n, a) ==
    Call(t, CommandCall(n, IF a = None THEN <<>> ELSE <<StrV(a)>>, NoTypes, None))

\* Non-getter: self._proc.stdin.write(command)
CommandWrite(t) ==
    /\ cpc[t] = "write"
    /\ IF WriteFails
       THEN /\ cres' = [cres EXCEPT ![t] = Outcome("IOError")]
            /\ cpc' = [cpc EXCEPT ![t] = "ret"]
            /\ UNCHANGED <<stdin, sent>>
       ELSE /\ CanWrite
            /\ stdin' = Written(CmdLine(cname[t], carg[t], t, Line(Request(ccall[t]))))
            /\ sent' = [sent EXCEPT ![t] = Append(@, Line(Request(ccall[t])))]
            /\ cpc' = [cpc EXCEPT ![t] = "flush"]
            /\ cres' = cres
    /\ UNCHANGED <<proc, running, reacts, printed, pipe, file, lock, subscribers>>
    /\ UNCHANGED <<mpc, mop, mres, cname, carg, ccall, cmsg, ppc, pw, pfile, pdata, pres, pidx, marg>>
    /\ UNCHANGED <<lastEvent, enteredDead, ansReads, pread, delivered, psubs, children, enteredAlive>>

\* Non-getter: self._proc.stdin.flush(), then the implicit return None
CommandFlush(t) ==
    /\ cpc[t] = "flush"
    /\ cpc' = [cpc EXCEPT ![t] = "ret"]
    /\ UNCHANGED progVars
    /\ UNCHANGED <<mpc, mop, mres, cname, carg, ccall, cmsg, cres, ppc, pw, pfile, pdata, pres, pidx, marg>>
    /\ UNCHANGED histVars

\* Variant of CommandAcquire: the lock is taken without waiting for it.
CommandAcquire_NoWait(t) ==
    /\ cpc[t] = "acquire"
    /\ lock' = [lock EXCEPT !["stdout"] = t]
    /\ cpc' = [cpc EXCEPT ![t] = "g_write"]
    /\ UNCHANGED <<proc, running, reacts, stdin, printed, pipe, file, subscribers>>
    /\ UNCHANGED <<mpc, mop, mres, cname, carg, ccall, cmsg, cres, ppc, pw, pfile, pdata, pres, pidx, marg>>
    /\ UNCHANGED histVars

\* Getter: with self._stdout._lock (Lock.acquire blocks while it is held)
CommandAcquire(t) ==
    /\ cpc[t] = "acquire"
    /\ lock["stdout"] = 0
    /\ lock' = [lock EXCEPT !["stdout"] = t]
    /\ cpc' = [cpc EXCEPT ![t] = "g_write"]
    /\ UNCHANGED <<proc, running, reacts, stdin, printed, pipe, file, subscribers>>
    /\ UNCHANGED <<mpc, mop, mres, cname, carg, ccall, cmsg, cres, ppc, pw, pfile, pdata, pres, pidx, marg>>
    /\ UNCHANGED histVars

\* Getter: self._proc.stdin.write(command) under the lock; an IOError leaves
\* the with block, which releases the lock.
CommandGetWrite(t) ==
    /\ cpc[t] = "g_write"
    /\ IF WriteFails
       THEN /\ cres' = [cres EXCEPT ![t] = Outcome("IOError")]
            /\ cpc' = [cpc EXCEPT ![t] = "ret"]
            /\ lock' = [lock EXCEPT !["stdout"] = 0]
            /\ UNCHANGED <<stdin, sent>>
       ELSE /\ CanWrite
            /\ stdin' = Written(CmdLine(cname[t], carg[t], t, Line(Request(ccall[t]))))
            /\ sent' = [sent EXCEPT ![t] = Append(@, Line(Request(ccall[t])))]
            /\ cpc' = [cpc EXCEPT ![t] = "g_flush"]
            /\ UNCHANGED <<cres, lock>>
    /\ UNCHANGED <<proc, running, reacts, printed, pipe, file, subscribers>>
    /\ UNCHANGED <<mpc, mop, mres, cname, carg, ccall, cmsg, ppc, pw, pfile, pdata, pres, pidx, marg>>
    /\ UNCHANGED <<lastEvent, enteredDead, ansReads, pread, delivered, psubs, children, enteredAlive>>

\* Getter: self._proc.stdin.flush()
CommandGetFlush(t) ==
    /\ cpc[t] = "g_flush"
    /\ cpc' = [cpc EXCEPT ![t] = "g_read"]
    /\ UNCHANGED progVars
    /\ UNCHANGED <<mpc, mop, mres, cname, carg, ccall, cmsg, cres, ppc, pw, pfile, pdata, pres, pidx, marg>>
    /\ UNCHANGED histVars

\* Getter: one res = self._proc.stdout.readline() of the while loop.  A line
\* that matches ends the loop and the with block (the lock is released) and
\* is the result; any other line is dropped.  readline blocks on an empty
\* pipe of a running child; at end of file it returns '', which does not
\* match, and the loop goes on as it was.
CommandRead(t) ==
    /\ cpc[t] = "g_read"
    /\ proc # 0
    /\ IF pipe[proc]["stdout"] # <<>>
       THEN LET l == Head(pipe[proc]["stdout"]) IN
            /\ pipe' = [pipe EXCEPT ![proc]["stdout"] = Tail(@)]
            /\ ansReads' = [ansReads EXCEPT ![t] = IF l.for = t THEN @ + 1 ELSE @]
            /\ IF Matches(l, carg[t])
               THEN /\ cres' = [cres EXCEPT ![t] = l]
                    /\ lock' = [lock EXCEPT !["stdout"] = 0]
                    /\ cpc' = [cpc EXCEPT ![t] = "ret"]
               ELSE UNCHANGED <<cres, lock, cpc>>
       ELSE /\ Ended(proc)
            /\ UNCHANGED <<pipe, ansReads, cres, lock, cpc>>
    /\ UNCHANGED <<proc, running, reacts, stdin, printed, file, subscribers>>
    /\ UNCHANGED <<mpc, mop, mres, cname, carg, ccall, cmsg, ppc, pw, pfile, pdata, pres, pidx, marg>>
    /\ UNCHANGED <<lastEvent, enteredDead, sent, pread, delivered, psubs, children, enteredAlive>>

\* The caller has its result (or exception).
CommandReturn(t) ==
    /\ cpc[t] = "ret"
    /\ cpc' = [cpc EXCEPT ![t] = "idle"]
    /\ cname' = [cname EXCEPT ![t] = ""]
    /\ carg' = [carg EXCEPT ![t] = None]
    /\ ccall' = [ccall EXCEPT ![t] = NoCall]
    /\ cmsg' = [cmsg EXCEPT ![t] = NoMsg]
    /\ cres' = [cres EXCEPT ![t] = Outcome(None)]
    /\ enteredDead' = [enteredDead EXCEPT ![t] = FALSE]
    /\ ansReads' = [ansReads EXCEPT ![t] = 0]
    /\ sent' = [sent EXCEPT ![t] = <<>>]
    /\ UNCHANGED progVars
    /\ UNCHANGED <<mpc, mop, mres, ppc, pw, pfile, pdata, pres, pidx, marg>>
    /\ UNCHANGED <<lastEvent, pread, delivered, psubs, children, enteredAlive>>

\* ---- the event loop: _FileWrapper.publish --------------------------------
\* if self._lock.locked() or self._file is None: return True
Publish(w) ==
    /\ ppc = "idle"
    /\ ~Finalizing
    /\ pw' = w
    /\ IF lock[w] # 0 \/ file[w] = 0
       THEN pres' = "True" /\ ppc' = "ret"
       ELSE pres' = None /\ ppc' = "p_load"
    /\ UNCHANGED progVars
    /\ UNCHANGED <<mpc, mop, mres, cpc, cname, carg, ccall, cmsg, cres, pfile, pdata, pidx, marg>>
    /\ UNCHANGED histVars

\* self._file.readline: the attribute is read again; None has no readline.
PublishLoad ==
    /\ ppc = "p_load"
    /\ IF file[pw] = 0
       THEN /\ pres' = "AttributeError"
            /\ ppc' = "ret"
            /\ pfile' = pfile
       ELSE /\ pfile' = file[pw]
            /\ ppc' = "p_read"
            /\ pres' = pres
    /\ UNCHANGED progVars
    /\ UNCHANGED <<mpc, mop, mres, cpc, cname, carg, ccall, cmsg, cres, pw, pdata, pidx, marg>>
    /\ UNCHANGED histVars

\* data = <file>.readline().decode().rstrip(): the next line of the pipe; ''
\* at end of file; blocks on an empty pipe of a running child.
PublishRead ==
    /\ ppc = "p_read"
    /\ IF pipe[pfile][pw] # <<>>
       THEN /\ pdata' = Head(pipe[pfile][pw])
            /\ pipe' = [pipe EXCEPT ![pfile][pw] = Tail(@)]
            /\ pread' = [line |-> TRUE, locked |-> lock[pw] # 0, detached |-> file[pw] = 0]
       ELSE /\ Ended(pfile)
            /\ pdata' = EofLine
            /\ UNCHANGED <<pipe, pread>>
    /\ ppc' = "p_deliver"
    /\ UNCHANGED <<proc, running, reacts, stdin, printed, file, lock, subscribers>>
    /\ UNCHANGED <<mpc, mop, mres, cpc, cname, carg, ccall, cmsg, cres, pw, pfile, pres, pidx, marg>>
    /\ UNCHANGED <<lastEvent, enteredDead, ansReads, sent, delivered, psubs, children, enteredAlive>>

\* subscriber in self._subscribers
InList(s, subs) == \E i \in 1..Len(subs) : subs[i] = s

\* self._subscribers.remove(subscriber): the list without the first
\* occurrence of a subscriber that is in it.
Remove(s, subs) ==
    LET i == CHOOSE k \in 1..Len(subs) :
                 subs[k] = s /\ \A j \in 1..(k - 1) : subs[j] # s
    IN SubSeq(subs, 1, i - 1) \o SubSeq(subs, i + 1, Len(subs))

\* if not data: return True; otherwise the for statement takes an iterator
\* of self._subscribers, the list itself and not a copy.
PublishDeliver ==
    /\ ppc = "p_deliver"
    /\ IF Text(pdata) = <<>>
       THEN pres' = "True" /\ ppc' = "ret" /\ psubs' = psubs
       ELSE pres' = pres /\ ppc' = "p_iter" /\ psubs' = subscribers[pw]
    /\ pidx' = 0
    /\ UNCHANGED progVars
    /\ UNCHANGED <<mpc, mop, mres, cpc, cname, carg, ccall, cmsg, cres, pw, pfile, pdata, marg>>
    /\ UNCHANGED <<lastEvent, enteredDead, ansReads, sent, pread, delivered, children, enteredAlive>>

\* What a subscriber does when it is called: nothing to the broadcaster, or
\* hook(s) or unhook(s) on it.
Callbacks(S) == {<<"none", "">>} \cup {<<k, s>> : k \in {"hook", "unhook"}, s \in S}

\* The subscriber list after the callback has run.
AfterCallback(subs, cb) ==
    IF cb[1] = "hook" /\ ~InList(cb[2], subs) THEN Append(subs, cb[2])
    ELSE IF cb[1] = "unhook" /\ InList(cb[2], subs) THEN Remove(cb[2], subs)
    ELSE subs

\* One round of the for loop: the iterator gives the element at its index
\* of the list as it is now and moves on, and subscriber(data) runs; past the
\* end of the list the loop is over and publish returns True.
PublishCall(S) ==
    /\ ppc = "p_iter"
    /\ IF pidx < Len(subscribers[pw])
       THEN /\ delivered' = Append(delivered, <<subscribers[pw][pidx + 1], pdata>>)
            /\ pidx' = pidx + 1
            /\ \E cb \in Callbacks(S) :
                  subscribers' = [subscribers EXCEPT ![pw] = AfterCallback(@, cb)]
            /\ UNCHANGED <<ppc, pres>>
       ELSE /\ pres' = "True"
            /\ ppc' = "ret"
            /\ UNCHANGED <<delivered, pidx, subscribers>>
    /\ UNCHANGED <<proc, running, reacts, stdin, printed, pipe, file, lock>>
    /\ UNCHANGED <<mpc, mop, mres, cpc, cname, carg, ccall, cmsg, cres, pw, pfile, pdata, marg>>
    /\ UNCHANGED <<lastEvent, enteredDead, ansReads, sent, pread, psubs, children, enteredAlive>>

\* publish is over; the event loop may call it again.
PublishReturn ==
    /\ ppc = "ret"
    /\ ppc' = "idle"
    /\ pw' = "stdout"
    /\ pfile' = 0
    /\ pdata' = EofLine
    /\ pres' = None
    /\ pidx' = 0
    /\ pread' = NoRead
    /\ delivered' = <<>>
    /\ psubs' = <<>>
    /\ pipe' = Collect(pipe, proc, file, 0, pw)
    /\ UNCHANGED <<proc, running, reacts, stdin, printed, file, lock, subscribers>>
    /\ UNCHANGED <<mpc, mop, mres, cpc, cname, carg, ccall, cmsg, cres, marg>>
    /\ UNCHANGED <<lastEvent, enteredDead, ansReads, sent, children, enteredAlive>>

\* ---- _FileWrapper.hook / unhook ------------------------------------------
\* Variant of hook: the membership test is missing.
hook_NoTest(w, s) ==
    /\ mpc = "idle"
    /\ mop' = "hook"
    /\ marg' = Args(w, s)
    /\ subscribers' = [subscribers EXCEPT ![w] = Append(@, s)]
    /\ mres' = "True"
    /\ mpc' = "ret"
    /\ UNCHANGED <<proc, running, reacts, stdin, printed, pipe, file, lock>>
    /\ UNCHANGED <<cpc, cname, carg, ccall, cmsg, cres, ppc, pw, pfile, pdata, pres, pidx>>
    /\ UNCHANGED histVars

\* hook(subscriber), called by the main thread with a callable: append and
\* return True if it is not in the list, else return False.
hook(w, s) ==
    /\ mpc = "idle"
    /\ mop' = "hook"
    /\ marg' = Args(w, s)
    /\ IF ~InList(s, subscribers[w])
       THEN /\ subscribers' = [subscribers EXCEPT ![w] = Append(@, s)]
            /\ mres' = "True"
       ELSE /\ subscribers' = subscribers
            /\ mres' = "False"
    /\ mpc' = "ret"
    /\ UNCHANGED <<proc, running, reacts, stdin, printed, pipe, file, lock>>
    /\ UNCHANGED <<cpc, cname, carg, ccall, cmsg, cres, ppc, pw, pfile, pdata, pres, pidx>>
    /\ UNCHANGED histVars

\* unhook(subscriber), called by the main thread: remove and return True if
\* it is in the list, else return False.
unhook(w, s) ==
    /\ mpc = "idle"
    /\ mop' = "unhook"
    /\ marg' = Args(w, s)
    /\ IF InList(s, subscribers[w])
       THEN /\ subscribers' = [subscribers EXCEPT ![w] = Remove(s, @)]
            /\ mres' = "True"
       ELSE /\ subscribers' = subscribers
            /\ mres' = "False"
    /\ mpc' = "ret"
    /\ UNCHANGED <<proc, running, reacts, stdin, printed, pipe, file, lock>>
    /\ UNCHANGED <<cpc, cname, carg, ccall, cmsg, cres, ppc, pw, pfile, pdata, pres, pidx>>
    /\ UNCHANGED histVars

\* ---- specifications ------------------------------------------------------
\* The steps of each thread.  The parameters are the inputs a composition
\* lets the thread take: W the streams, R the kinds of child, O the
\* operations, NS the command names.
ProcSteps(W) ==
    \/ \E w \in W, s \in Texts : ProcPrint(w, s)
    \/ ProcServe
    \/ ProcExit

SpawnSteps(R) ==
    \/ MainSpawn(R)
    \/ MainSpawnAttachOut
    \/ MainSpawnAttachErr
    \/ MainReturn

QuitSteps(O) ==
    \/ \E op \in O : MainQuit(op)
    \/ MainQuitClearOut
    \/ MainQuitClearErr
    \/ MainQuitCommand
    \/ MainQuitWrite
    \/ MainQuitFlush
    \/ MainQuitWait

PlainSteps(t) ==
    \/ CommandWrite(t)
    \/ CommandFlush(t)

GetterSteps(t) ==
    \/ CommandGetWrite(t)
    \/ CommandGetFlush(t)
    \/ CommandRead(t)
    \/ CommandReturn(t)

CommandSteps(NS) ==
    \/ \E t \in Callers, n \in NS : \E a \in ArgsOf(n) : Command(t, n, a)
    \/ \E t \in Callers : PlainSteps(t)
    \/ \E t \in Callers : CommandAcquire(t)
    \/ \E t \in Callers : GetterSteps(t)

ExchangeSteps ==
    \/ \E t \in Callers, a \in Props : Command(t, "get_property", a)
    \/ \E t \in Callers : CommandAcquire(t)
    \/ \E t \in Callers : GetterSteps(t)

PublishRest ==
    \/ PublishLoad
    \/ PublishRead
    \/ PublishDeliver
    \/ PublishCall(Subs)
    \/ PublishReturn

PublishSteps(W) ==
    \/ \E w \in W : Publish(w)
    \/ PublishRest

HookSteps(W) ==
    \/ \E w \in W, s \in Subs : hook(w, s)
    \/ \E w \in W, s \in Subs : unhook(w, s)

\* The product of all threads is beyond exhaustive search, so each
\* specification composes the threads its properties are about.

\* Lifecycle: the main thread spawns and quits, the child prints, serves and
\* exits, the event loop publishes both streams, subscribers come and go.
Next ==
    \/ ProcSteps(Streams)
    \/ SpawnSteps({TRUE})
    \/ QuitSteps({"quit"})
    \/ PublishSteps(Streams)
    \/ HookSteps(Streams)

Spec == Init /\ [][Next]_vars

\* Commands: callers issue getters and non-getters while the main thread
\* spawns and quits and the child, which prints nothing unsolicited, serves
\* and exits.
CommandNext ==
    \/ ProcServe
    \/ ProcExit
    \/ SpawnSteps({TRUE})
    \/ QuitSteps({"quit"})
    \/ CommandSteps(Names)

CommandSpec == Init /\ [][CommandNext]_vars

\* Getters: callers issue getters concurrently; the child prints, serves and
\* exits and the main thread spawns it again.
GetterNext ==
    \/ ProcSteps({"stdout"})
    \/ SpawnSteps({TRUE})
    \/ ExchangeSteps

GetterSpec == Init /\ [][GetterNext]_vars

\* Getters and the event loop publishing stdout, with a child that stays up
\* and answers every getter, under fair
\* scheduling: every thread that can take a step eventually does, a caller
\* waiting for the lock gets it if it is free again and again, and the child
\* serves its stdin.
AnsweringNext ==
    \/ \E s \in Texts : ProcPrint("stdout", s)
    \/ ProcServe
    \/ SpawnSteps({TRUE})
    \/ ExchangeSteps
    \/ PublishSteps({"stdout"})
    \/ HookSteps({"stdout"})

AnsweringSpec ==
    /\ Init
    /\ [][AnsweringNext]_vars
    /\ WF_vars(ProcServe)
    /\ WF_vars(SpawnSteps({TRUE}))
    /\ WF_vars(PublishRest)
    /\ \A t \in Callers : WF_vars(GetterSteps(t)) /\ SF_vars(CommandAcquire(t))

\* Teardown: the main thread spawns, quits and finalizes (__del__) a child
\* that may not react; the main thread is scheduled fairly and a child that
\* reacts serves its stdin.
TeardownNext ==
    \/ ProcSteps(Streams)
    \/ SpawnSteps(BOOLEAN)
    \/ QuitSteps({"quit", "del"})

TeardownSpec ==
    /\ Init
    /\ [][TeardownNext]_vars
    /\ WF_vars(ProcServe)
    /\ WF_vars(MainSpawnAttachOut \/ MainSpawnAttachErr \/ MainReturn)
    /\ WF_vars(MainQuitClearOut \/ MainQuitClearErr \/ MainQuitCommand
                \/ MainQuitWrite \/ MainQuitFlush \/ MainQuitWait)

\* Fan-out on the stderr broadcaster: subscribers are registered and removed
\* between publish calls, and the subscribers publish calls during a delivery
\* may hook and unhook on the broadcaster that calls them.
LoopHook(w, s) == ppc = "idle" /\ (hook(w, s) \/ unhook(w, s))

FanoutNext ==
    \/ \E s \in Texts : ProcPrint("stderr", s)
    \/ ProcExit
    \/ SpawnSteps({TRUE})
    \/ Publish("stderr")
    \/ PublishLoad
    \/ PublishRead
    \/ PublishDeliver
    \/ PublishCall(FanoutSubs)
    \/ PublishReturn
    \/ \E s \in FanoutSubs : LoopHook("stderr", s)

FanoutSpec == Init /\ [][FanoutNext]_vars

\* Exit: callers issue getters to a child that serves and may exit at any
\* moment, and that the main thread may spawn again, under fair scheduling:
\* a caller that can take a step eventually does, a caller waiting for the
\* lock gets it if it is free again and again, and the child serves its
\* stdin while it runs.
ExitNext ==
    \/ ProcServe
    \/ ProcExit
    \/ SpawnSteps({TRUE})
    \/ ExchangeSteps

ExitSpec ==
    /\ Init
    /\ [][ExitNext]_vars
    /\ WF_vars(ProcServe)
    /\ \A t \in Callers : WF_vars(GetterSteps(t)) /\ SF_vars(CommandAcquire(t))

\* One caller makes the calls of the two specifications below.
WireCaller == 1

\* Properties: the caller reads and sets a property, of every type, with
\* values of every type, in and out of the bounds, absolute and Step; the
\* child answers getters with payloads of every shape, serves and exits, and
\* the main thread spawns it again.
PTypes == {"bool", "int", "float", "str", "dict"}

WireValues ==
    {IntV(n) : n \in {-1, 50, 101}} \cup {FloatV(n) : n \in {-1, 50, 101}}
        \cup {BoolV(TRUE), StrV("x")}
        \cup {StepV(m, d) : m \in {0, 1000}, d \in {-1, 1}}

PropertyCalls ==
    {PropgetCall("volume", pt) : pt \in PTypes}
        \cup {PropsetCall(v, "volume", pt, lo, hi) :
                 v \in WireValues, pt \in {"int", "float"},
                 lo \in {NoBound, Bound(0)}, hi \in {NoBound, Bound(100)}}
        \cup {PropsetCall(v, "volume", "bool", NoBound, NoBound) : v \in WireValues}

WirePayloads ==
    {<<EQ, "50">>, <<EQ, SQ, "50", SQ>>, <<EQ, DQ, "(null)", DQ>>, <<EQ, "(null)">>,
     <<EQ, "PROPERTY_UNAVAILABLE">>, <<EQ, "PROPERTY_UNKNOWN">>, <<EQ, "yes">>,
     <<EQ>>, <<>>, <<EQ, "a", EQ, "b">>, <<EQ, SQ, "it", SQ, "s", SQ>>}

WireErrPayloads ==
    {<<EQ, "PROPERTY_UNKNOWN">>, <<EQ, "PROPERTY_UNAVAILABLE">>, <<EQ, "ERROR">>}

PropertyNext ==
    \/ \E c \in PropertyCalls : Call(WireCaller, c)
    \/ PlainSteps(WireCaller)
    \/ CommandAcquire(WireCaller)
    \/ GetterSteps(WireCaller)
    \/ ProcServeWith(WirePayloads, WireErrPayloads)
    \/ ProcExit
    \/ SpawnSteps({TRUE})

PropertySpec == Init /\ [][PropertyNext]_vars

\* The wire: the caller calls generated methods, with arguments of every
\* type and with and without a prefix, and _command itself for a property
\* and for quit; the child serves and exits and the main thread spawns it
\* again.
\* Generated methods, as -input cmdlist declares them: seek Float [Integer],
\* speed_set Float, osd_show_text String [Integer] [Integer], pause, stop.
Methods ==
    {[name |-> "seek", declared |-> <<Param("float", FALSE), Param("int", TRUE)>>],
     [name |-> "speed_set", declared |-> <<Param("float", FALSE)>>],
     [name |-> "osd_show_text",
      declared |-> <<Param("str", FALSE), Param("int", TRUE), Param("int", TRUE)>>],
     [name |-> "pause", declared |-> <<>>],
     [name |-> "stop", declared |-> <<>>]}

MethodValues == {FloatV(2), IntV(1), StrV("hi")}

Prefixes == {None, "pausing"}

\* The number of parameters a call must supply.
Required(declared) == Cardinality({i \in 1..Len(declared) : ~declared[i].optional})

MethodCalls ==
    UNION {{MethodCall(m.name, m.declared, a, pre) :
              a \in UNION {[1..k -> MethodValues] : k \in Required(m.declared)..Len(m.declared)},
              pre \in Prefixes} : m \in Methods}

WireCalls ==
    MethodCalls
        \cup {CommandCall("get_property", <<StrV("volume")>>, NoTypes, pre) : pre \in Prefixes}
        \cup {CommandCall("set_property", <<StrV("volume"), BoolV(TRUE)>>, NoTypes, pre) :
                 pre \in Prefixes}
        \cup {CommandCall("quit", <<IntV(0)>>, NoTypes, pre) : pre \in Prefixes}

WireNext ==
    \/ \E c \in WireCalls : Call(WireCaller, c)
    \/ PlainSteps(WireCaller)
    \/ CommandAcquire(WireCaller)
    \/ GetterSteps(WireCaller)
    \/ ProcServe
    \/ ProcExit
    \/ SpawnSteps({TRUE})

WireSpec == Init /\ [][WireNext]_vars

\* ---- properties ----------------------------------------------------------
\* C1: while a getter holds the stdout lock, publish reads no line of the
\* stream, and no answer line of a getter is ever consumed by publish.
C1_BroadcastSuppression ==
    pread.line /\ pw = "stdout" => ~pread.locked /\ pdata.for = 0

\* C2: a caller between the acquisition and the release of the stdout lock
\* holds the lock (so no two callers are there at once), and a getter that
\* returns a line returns the answer produced for its own command, read once.
InWindow(t) == cpc[t] \in {"g_write", "g_flush", "g_read"}

C2_ExclusionInvariant ==
    \A t \in Callers :
        /\ InWindow(t) => lock["stdout"] = t
        /\ \A u \in Callers : InWindow(t) /\ InWindow(u) => t = u
        /\ cpc[t] = "ret" /\ cres[t].tag \in {"ANS", "ERR"}
              => cres[t].for = t /\ ansReads[t] = 1

\* A getter has returned its answer while the other caller waits for the lock.
C2_Witness ==
    \E t, u \in Callers :
        /\ cpc[t] = "ret" /\ cres[t].tag = "ANS" /\ cres[t].for = t
        /\ cpc[u] = "acquire"

\* C3: no two callers are between the write of their line to stdin and the
\* end of its flush at once.
InWriteFlush(t) == cpc[t] \in {"flush", "g_flush"}

C3_StdinLineAtomicity ==
    \A t, u \in Callers : InWriteFlush(t) /\ InWriteFlush(u) => t = u

\* C4: with a child that answers every getter and fair scheduling, every
\* getter call that waits for the stdout lock eventually returns.
C4_GettersComplete ==
    \A t \in Callers : (cpc[t] = "acquire") ~> (cpc[t] = "ret")

\* C5: is_alive() is false before any spawn, true from a successful spawn on,
\* and false once the child has exited or quit() of it has returned, also
\* for a child spawned after an earlier one was quit.
C5_LivenessInvariant ==
    /\ lastEvent = "init" => ~is_alive
    /\ lastEvent = "spawn" => is_alive
    /\ lastEvent \in {"exit", "quit"} => ~is_alive

\* spawn() has just returned for a later child, which is alive.
C5_Witness ==
    /\ proc = MaxSpawns
    /\ mop = "spawn" /\ mpc = "ret"
    /\ is_alive

\* C6: a call that begins with no live process has ended at once with None:
\* it is never at a write, a lock or a read, and no line on stdin is its own.
C6_NoOpWhenDead ==
    \A t \in Callers :
        enteredDead[t] =>
            /\ cpc[t] = "ret"
            /\ cres[t] = Outcome(None)
            /\ lock["stdout"] # t
            /\ \A i \in 1..Len(stdin) : stdin[i].by # t

\* A getter called after the child has exited has returned None.
C6_Witness ==
    \E t \in Callers :
        /\ enteredDead[t] /\ cname[t] = "get_property" /\ cpc[t] = "ret"
        /\ proc # 0 /\ ~running

\* C7: quit() of a live process writes its quit line with both broadcasters
\* detached, and a publish() called after that quit() has returned and before
\* the next spawn() returns True at once: no read, no delivery.
C7_QuitDetaches ==
    [][/\ (mpc = "q_write" /\ mpc' = "q_flush")
            => file["stdout"] = 0 /\ file["stderr"] = 0
       /\ (lastEvent = "quit" /\ ppc = "idle" /\ ppc' # "idle")
            => /\ ppc' = "ret" /\ pres' = "True"
               /\ pipe' = pipe /\ delivered' = <<>>]_vars

\* After quit() has returned, publish() has returned True without taking a
\* file although a subscriber is registered and a line of the child is unread.
C7_Witness ==
    /\ lastEvent = "quit"
    /\ ppc = "ret" /\ pres = "True" /\ pfile = 0
    /\ subscribers[pw] # <<>>
    /\ pipe[proc][pw] # <<>>

\* C8: quit() never ends with an exception because the child has exited.
C8_QuitNeverRaises ==
    mop = "quit" => mres # "IOError"

\* C9: teardown (__del__) eventually returns.
C9_TeardownReturns ==
    (mop = "del") ~> (mpc = "finalized")

\* C10: publish never fails on a detached broadcaster and never reads a line
\* of a stream after the reference to it has been cleared.
C10_DetachedReadsAreNoOps ==
    /\ pres # "AttributeError"
    /\ ~pread.detached

\* C11: when publish returns it returns True; if it read no line or an empty
\* one it has called no subscriber; if it read a non-empty line, every
\* subscriber that was registered when the delivery began and still is has
\* been called exactly once with that line, and the calls are in registration
\* order.
PosIn(subs, s) == CHOOSE i \in 1..Len(subs) : subs[i] = s

C11_OrderedFanout ==
    ppc = "ret" =>
        /\ pres = "True"
        /\ (~pread.line \/ Text(pdata) = <<>>) => delivered = <<>>
        /\ (pread.line /\ Text(pdata) # <<>>) =>
              /\ \A s \in FanoutSubs :
                    InList(s, psubs) /\ InList(s, subscribers[pw])
                        => Cardinality({i \in 1..Len(delivered) : delivered[i][1] = s}) = 1
              /\ \A i \in 1..Len(delivered) : delivered[i][2] = pdata
              /\ \A i, j \in 1..Len(delivered) :
                    /\ i < j
                    /\ InList(delivered[i][1], psubs)
                    /\ InList(delivered[j][1], psubs)
                    => PosIn(psubs, delivered[i][1]) < PosIn(psubs, delivered[j][1])

\* C12: a subscriber list never holds a callback twice; hook() of a
\* registered callback returns False and leaves the list as it is; unhook()
\* of a callback that is not registered returns False and leaves the list as
\* it is; unhook() of a registered callback removes it, and the others stay,
\* in the order they had.
NoDuplicates(subs) ==
    \A i, j \in 1..Len(subs) : subs[i] = subs[j] => i = j

KeepsOthers(before, after, s) ==
    /\ ~InList(s, after)
    /\ Len(after) = Len(before) - 1
    /\ \A x \in FanoutSubs \ {s} : InList(x, before) => InList(x, after)
    /\ \A x, y \in FanoutSubs \ {s} :
          InList(x, before) /\ InList(y, before) /\ PosIn(before, x) < PosIn(before, y)
              => PosIn(after, x) < PosIn(after, y)

HookContract ==
    mpc = "idle" /\ mop' \in {"hook", "unhook"} =>
        LET w == marg'.on
            s == marg'.sub
            before == subscribers[w]
            after == subscribers'[w]
        IN /\ mop' = "hook" /\ InList(s, before)
                => mres' = "False" /\ subscribers' = subscribers
           /\ mop' = "unhook" /\ ~InList(s, before)
                => mres' = "False" /\ subscribers' = subscribers
           /\ mop' = "unhook" /\ InList(s, before)
                => KeepsOthers(before, after, s)

C12_IdempotentHook ==
    /\ [](\A w \in Streams : NoDuplicates(subscribers[w]))
    /\ [][HookContract]_vars

\* hook() of a registered callback has returned False on a full list.
C12_Witness ==
    /\ mop = "hook" /\ mres = "False" /\ mpc = "ret"
    /\ Len(subscribers[marg.on]) = Cardinality(FanoutSubs)

\* C13: a spawn() call that begins with a live process returns with the
\* process handle, both attached streams and the set of running children as
\* they were, and at no time are two children launched by the Player running.
SpawnNoOp ==
    mpc = "idle" /\ mop' = "spawn" /\ is_alive =>
        /\ mpc' = "ret"
        /\ proc' = proc
        /\ file' = file
        /\ children' = children

C13_SpawnNoOpWhenAlive ==
    /\ [](Cardinality(children) <= 1)
    /\ [][SpawnNoOp]_vars

\* spawn() has returned at once on the live child of a quit-then-spawn cycle,
\* to which both broadcasters are attached.
C13_Witness ==
    /\ mop = "spawn" /\ mpc = "ret" /\ enteredAlive
    /\ proc = MaxSpawns /\ children = {proc}
    /\ \A w \in Streams : file[w] = proc

\* C14: a property read whose getter was answered with an ANS_ERROR line
\* gives None and raises nothing, for every type of property and every
\* payload of the line.
C14_ProtocolErrorAbsorbed ==
    \A t \in Callers :
        cpc[t] = "ret" /\ ccall[t].api = "_propget" /\ cres[t].tag = "ERR"
            => propget(ccall[t], Returned(t)) = "None"

\* value < pmin or value > pmax, for the bounds the property declares.
OutOfBounds(c) ==
    \/ c.pmin.set /\ c.value.num < c.pmin.at
    \/ c.pmax.set /\ c.value.num > c.pmax.at

\* C15: setting a non-boolean property to an absolute value below its declared
\* minimum or above its declared maximum raises a validation error (ValueError
\* when the value is of the property's type, TypeError when it is not) and
\* the call writes no line to stdin; setting it with a Step never raises a
\* validation error, whatever the magnitude, and on a Player that was alive
\* at the call and whose write did not fail the call has written one
\* step_property line.
C15_BoundsBeforeTransmission ==
    \A t \in Callers :
        LET c == ccall[t] IN
        (c.api = "_propset" /\ c.ptype # "bool") =>
            /\ (c.value.type # "Step" /\ OutOfBounds(c)) =>
                   /\ cpc[t] = "ret"
                   /\ cres[t].tag \in {"TypeError", "ValueError"}
                   /\ (IsInstance(c.value, c.ptype) => cres[t].tag = "ValueError")
                   /\ sent[t] = <<>>
            /\ c.value.type = "Step" =>
                   /\ cres[t].tag \notin {"TypeError", "ValueError"}
                   /\ (cpc[t] = "ret" /\ ~enteredDead[t] /\ cres[t].tag # "IOError") =>
                          /\ Len(sent[t]) = 1
                          /\ sent[t][1][2] = "step_property"

\* A value of the property's type above the maximum was refused while the
\* child was running and its stdin was empty.
C15_Witness ==
    \E t \in Callers :
        /\ ccall[t].api = "_propset" /\ ccall[t].ptype = "int"
        /\ ccall[t].value = IntV(101) /\ ccall[t].pmax = Bound(100)
        /\ cpc[t] = "ret" /\ cres[t].tag = "ValueError"
        /\ running /\ stdin = <<>> /\ sent[t] = <<>>

\* C16: setting a settable property, boolean or not, with a Step writes
\* exactly one line, a step_property line that carries the property name,
\* the Step's magnitude and the Step's direction (so no set_property line),
\* on a Player that was alive at the call and whose write did not fail.
C16_StepEmitsStepCommand ==
    \A t \in Callers :
        LET c == ccall[t] IN
        (/\ c.api = "_propset" /\ c.value.type = "Step"
         /\ cpc[t] = "ret" /\ ~enteredDead[t] /\ cres[t].tag # "IOError") =>
            /\ Len(sent[t]) = 1
            /\ sent[t][1] = <<command_prefix, "step_property", c.name,
                              ToString(c.value.num), ToString(c.value.dir), "\n">>

\* The arguments a call supplies: the parameters left out are None.
Supplied(c) == SelectSeq(c.args, LAMBDA x : x.type # "NoneType")

\* The positions of the supplied arguments that are not of the declared type.
Mismatches(c) ==
    {i \in 1..Len(Supplied(c)) : ~IsInstance(Supplied(c)[i], c.types.items[i])}

\* The line of a call: the prefix (none for pause and stop), the name and
\* the supplied arguments.
ExpectedLine(c) ==
    (IF c.name \in {"pause", "stop"} THEN <<>>
     ELSE <<IF c.prefix = None THEN command_prefix ELSE c.prefix>>)
        \o <<c.name>> \o [i \in 1..Len(Supplied(c)) |-> Supplied(c)[i].text] \o <<"\n">>

\* C17: a call of a generated command on a Player that is alive, with a
\* supplied argument that is not of its declared type, raises a TypeError
\* that names the expected type and the 1-based position of the first such
\* argument, and writes no line; a call whose supplied arguments all match,
\* for commands of one, two or more declared parameters, raises no error
\* and, unless its write fails, has written exactly one line with the
\* supplied arguments only.
C17_TypeValidation ==
    \A t \in Callers :
        LET c == ccall[t] IN
        (/\ c.name \in {m.name : m \in Methods}
         /\ cpc[t] = "ret" /\ ~enteredDead[t]) =>
            IF Mismatches(c) # {}
            THEN LET i == CHOOSE i \in Mismatches(c) : \A j \in Mismatches(c) : i <= j
                 IN /\ cres[t].tag = "TypeError"
                    /\ cmsg[t] = Msg(c.types.items[i], i)
                    /\ sent[t] = <<>>
            ELSE /\ cres[t].tag \in {None, "IOError"}
                 /\ cres[t].tag = None => sent[t] = <<ExpectedLine(c)>>

\* The prefix in effect for a call: the override of the call if it has one,
\* the default of the class if not.
EffectivePrefix(c) == IF c.prefix = None THEN command_prefix ELSE c.prefix

\* C18: every line a call writes for a command other than quit, pause and
\* stop begins with the effective prefix, the override of the call when one
\* is given and the default prefix otherwise, followed by the command name;
\* every line written for quit, pause or stop begins with the command name,
\* without a prefix, whatever the default and the override.
C18_PrefixRule ==
    \A t \in Callers : \A i \in 1..Len(sent[t]) :
        LET l == sent[t][i] IN
        IF cname[t] \in {"quit", "pause", "stop"}
        THEN l[1] = cname[t]
        ELSE l[1] = EffectivePrefix(ccall[t]) /\ l[2] = cname[t]

\* A quit line was written by a call with a prefix override.
C18_Witness ==
    \E t \in Callers :
        /\ cname[t] = "quit" /\ ccall[t].prefix = "pausing"
        /\ Len(sent[t]) = 1

\* p is the payload of the text x: what follows the first '=' of x (nothing
\* if x has none) without the quote characters that surround it.
IsPayload(p, x) ==
    IF \A k \in 1..Len(x) : x[k] # EQ THEN p = <<>>
    ELSE LET k == CHOOSE k \in 1..Len(x) : x[k] = EQ /\ \A j \in 1..(k - 1) : x[j] # EQ
             rest == SubSeq(x, k + 1, Len(x))
         IN \E i \in 1..(Len(rest) + 1), j \in 0..Len(rest) :
                /\ p = SubSeq(rest, i, j)
                /\ \A m \in 1..(i - 1) : rest[m] \in {SQ, DQ}
                /\ \A m \in (j + 1)..Len(rest) : rest[m] \in {SQ, DQ}
                /\ p # <<>> => p[1] \notin {SQ, DQ} /\ p[Len(p)] \notin {SQ, DQ}

\* C19: a getter that read its answer line returns None when the payload of
\* the line (the text after the first '=', surrounding quote characters
\* stripped) is (null), PROPERTY_UNAVAILABLE or PROPERTY_UNKNOWN, and
\* returns the payload unchanged for every other payload.
C19_SentinelNormalization ==
    \A t \in Callers :
        (cpc[t] = "ret" /\ cres[t].tag \in {"ANS", "ERR"}) =>
            LET x == Text(cres[t]) IN
            \E i \in 1..(Len(x) + 1), j \in 0..Len(x) :
                LET p == SubSeq(x, i, j) IN
                /\ IsPayload(p, x)
                /\ IF p \in {<<"(null)">>, <<"PROPERTY_UNAVAILABLE">>, <<"PROPERTY_UNKNOWN">>}
                   THEN Returned(t).none
                   ELSE ~Returned(t).none /\ Returned(t).text = p

\* A getter returned from an answer line whose payload is (null) in quotes.
C19_Witness ==
    \E t \in Callers :
        /\ cpc[t] = "ret" /\ cres[t].tag = "ANS"
        /\ cres[t].payload = <<EQ, DQ, "(null)", DQ>>
        /\ Returned(t).none

\* C20: a getter that holds the stdout lock and waits for its answer line
\* when the child has exited eventually returns and has released the lock.
C20_GetterSurvivesExit ==
    \A t \in Callers :
        (cpc[t] = "g_read" /\ lock["stdout"] = t /\ ~running)
            ~> (cpc[t] = "ret" /\ lock["stdout"] # t)

\* The main thread is between two operations, or at the return of one.
Settled == mpc \in {"idle", "ret", "finalized"}

\* A step of the main thread inside spawn() or quit().
LifecycleStep == mpc' # mpc /\ (mop \in {"spawn", "quit"} \/ mop' \in {"spawn", "quit"})

\* C21: after any sequence of spawn(), quit() and exits of the child, the
\* stream attached to each broadcaster is absent (None) or the stream of the
\* process spawned last; a spawn() that launched a process returns with both
\* broadcasters attached to the streams of that process; and no step of
\* spawn() or quit() changes a subscriber list, so the subscribers registered
\* before a quit-then-spawn cycle are the ones publish delivers to after it.
C21_AttachmentInvariant ==
    /\ [](Settled => \A w \in Streams : file[w] = 0 \/ file[w] = proc)
    /\ []((mop = "spawn" /\ mpc = "ret" /\ ~enteredAlive) =>
            proc # 0 /\ \A w \in Streams : file[w] = proc)
    /\ [][LifecycleStep => subscribers' = subscribers]_vars

\* After an earlier child has ended, publish has taken a line from the
\* stream of the child spawned last and called a subscriber with it.
C21_Witness ==
    /\ proc = MaxSpawns
    /\ Settled
    /\ ppc = "ret" /\ pfile = proc /\ file[pw] = proc
    /\ delivered # <<>>

====
